---- MODULE Spec2Model ----
(***************************************************************************)
(* Replication core of the graph store: the chain write client             *)
(* (clients/storage/InternalStorageClient.cpp) and the snapshot transfer   *)
(* manager (kvstore/raftex/SnapshotManager.cpp).                           *)
(***************************************************************************)
EXTENDS Integers, Sequences, FiniteSets, TLC

(***************************************************************************)
(* Bounds of the model.                                                    *)
(***************************************************************************)
\* Largest number of attempts (lookup + send) of one chain operation: the
\* peer stops answering leader-changed once this many requests were sent.
MaxAttempts == 3
\* Largest number of callbacks the row iteration makes in one transfer.
MaxChunks == 3
\* Largest log id the partition commits while a transfer runs.
MaxLogId == 2
\* Largest term of the source partition the receiver of chain requests learns.
MaxSrcTerm == 3

(***************************************************************************)
(* Values.                                                                 *)
(***************************************************************************)
\* Offset from the storage port to the internal (replication) port.
kInternalPortOffset == -2

Hosts == {"h1", "h2"}
Ports == {9779}
HostAddrs == [host : Hosts, port : Ports]
NoAddr == [host |-> "", port |-> 0]

\* StatusOr<HostAddr> returned by getLeader(spaceId, partId).
LeaderResults ==
    {[ok |-> FALSE, addr |-> NoAddr]} \cup {[ok |-> TRUE, addr |-> a] : a \in HostAddrs}

\* Codes a storage processor puts into failed_parts.
PartCodes == {"E_LEADER_CHANGED", "E_KEY_NOT_FOUND"}
FailedPartLists ==
    { <<>>,
      <<"E_LEADER_CHANGED">>,
      <<"E_KEY_NOT_FOUND">>,
      <<"E_LEADER_CHANGED", "E_KEY_NOT_FOUND">>,
      <<"E_KEY_NOT_FOUND", "E_LEADER_CHANGED">> }

\* folly::Try<StatusOr<Response>>: no value (the transport failed), a non-ok
\* status, or an ok status with the response's failed_parts.
TryResponses ==
    {[hasValue |-> FALSE, status |-> "none", failed |-> <<>>]}
    \cup {[hasValue |-> TRUE, status |-> s, failed |-> <<>>] : s \in {"kLeaderChanged", "kError"}}
    \cup {[hasValue |-> TRUE, status |-> "ok", failed |-> f] : f \in FailedPartLists}

ChainKinds == {"update", "add", "delete"}
Terms == {1, 2}
NoVersion == "none"
Versions == {NoVersion, "v7"}
CallerEvb == "evb1"
\* The partition keys of a request's payload, in the iteration order of its
\* parts map; an UpdateEdgeRequest names the one partition of its edge.
PartIds == {1, 2}
UpdateParts == {<<1>>, <<2>>}
BatchParts == {<<1>>, <<1, 2>>, <<2, 1>>}
DefaultEvb == "default"

VARIABLES
    chain,      \* the one chain operation: see ChainInit
    snap,       \* the one snapshot transfer: see SnapInit
    part,       \* the RaftPart the snapshot is taken from: see PartInit
    peer,       \* the receiver of the chain requests: see PeerInit
    trio,       \* one operation of each kind, given the same inputs: see TrioInit
    ops,        \* two operations running concurrently: see OpsInit
    zone        \* the meta store and one DivideZone request: see ZoneInit

vars == <<chain, snap, part, peer, trio, ops, zone>>

(***************************************************************************)
(* The chain write client.                                                 *)
(***************************************************************************)
ChainInit ==
    [ pc       |-> "idle",     \* idle, sending (a request is in flight), done
      kind     |-> "update",
      term     |-> 1,          \* the arguments of the caller's invocation
      version  |-> NoVersion,
      parts    |-> <<1>>,      \* the payload: the request's partition keys
      lookups  |-> <<>>,       \* every result getLeader returned, in order
      sent     |-> <<>>,       \* every request handed to getResponse, in order
      inflight |-> 0,          \* requests whose future has not completed
      resps    |-> <<>>,       \* every Try the continuation received, in order
      codes    |-> <<>>,       \* the code the continuation extracted from each
      promise  |-> <<>> ]      \* every value given to p.setValue, in order

\* getErrorCode without the walk over failed_parts.
getErrorCodeNoParts(tryResp) ==
    IF ~tryResp.hasValue THEN "E_RPC_FAILURE"
    ELSE IF tryResp.status # "ok"
         THEN IF tryResp.status = "kLeaderChanged" THEN "E_LEADER_CHANGED" ELSE "E_UNKNOWN"
         ELSE "SUCCEEDED"
\* getErrorCode without the case kLeaderChanged of the switch.
getErrorCodeNoLeaderCase(tryResp) ==
    IF ~tryResp.hasValue THEN "E_RPC_FAILURE"
    ELSE IF tryResp.status # "ok" THEN "E_UNKNOWN"
         ELSE IF Len(tryResp.failed) > 0 THEN tryResp.failed[1] ELSE "SUCCEEDED"
\* getErrorCode walking failed_parts to its end.
getErrorCodeLastPart(tryResp) ==
    IF ~tryResp.hasValue THEN "E_RPC_FAILURE"
    ELSE IF tryResp.status # "ok"
         THEN IF tryResp.status = "kLeaderChanged" THEN "E_LEADER_CHANGED" ELSE "E_UNKNOWN"
         ELSE IF Len(tryResp.failed) > 0 THEN tryResp.failed[Len(tryResp.failed)]
              ELSE "SUCCEEDED"
\* getErrorCode whose switch falls through to the failed_parts.
getErrorCodeFallThrough(tryResp) ==
    IF ~tryResp.hasValue THEN "E_RPC_FAILURE"
    ELSE IF tryResp.status = "kLeaderChanged" THEN "E_LEADER_CHANGED"
         ELSE IF Len(tryResp.failed) > 0 THEN tryResp.failed[1] ELSE "SUCCEEDED"
\* getErrorCode taking a transport failure for a change of leader.
getErrorCodeRetryRpc(tryResp) ==
    IF ~tryResp.hasValue THEN "E_LEADER_CHANGED"
    ELSE IF tryResp.status # "ok"
         THEN IF tryResp.status = "kLeaderChanged" THEN "E_LEADER_CHANGED" ELSE "E_UNKNOWN"
         ELSE IF Len(tryResp.failed) > 0 THEN tryResp.failed[1] ELSE "SUCCEEDED"
getErrorCode(tryResp) ==
    IF ~tryResp.hasValue THEN "E_RPC_FAILURE"
    ELSE IF tryResp.status # "ok"
         THEN IF tryResp.status = "kLeaderChanged" THEN "E_LEADER_CHANGED" ELSE "E_UNKNOWN"
         ELSE IF Len(tryResp.failed) > 0 THEN tryResp.failed[1] ELSE "SUCCEEDED"

\* leader.port += kInternalPortOffset
InternalAddrSamePort(leader) == leader
InternalAddr(leader) == [leader EXCEPT !.port = @ + kInternalPortOffset]

\* p.setValue(code)
SetValue(o, code) == [o EXCEPT !.promise = Append(@, code), !.pc = "done"]

\* getResponse(evb, {leader, chainReq}, ...): one request leaves, its future is pending.
getResponseTwice(o, req) ==
    [o EXCEPT !.sent = Append(Append(@, req), req), !.inflight = @ + 2, !.pc = "sending"]
getResponse(o, req) ==
    [o EXCEPT !.sent = Append(@, req), !.inflight = @ + 1, !.pc = "sending"]

\* getLeader(spaceId, partId) returned lk.
getLeader(o, partId, lk) ==
    [o EXCEPT !.lookups = Append(@, [ok |-> lk.ok, addr |-> lk.addr, part |-> partId])]

\* get_parts().begin()->first
\* The key the iteration over the parts map reaches last.
LastPartKey(parts) == parts[Len(parts)]
FirstPartKey(parts) == parts[1]

\* makeChainAddReq without the copy of the optional version.
makeChainAddReqNoVersion(o, termId, ver) ==
    [kind |-> "add", term |-> termId, version |-> NoVersion, parts |-> o.parts]
makeChainAddReq(o, termId, ver) ==
    [kind |-> "add", term |-> termId, version |-> ver, parts |-> o.parts]

\* The body of chainUpdateEdge up to the dispatch of the request; lk is what
\* getLeader returns in this invocation.
chainUpdateEdgeWrongCode(o, termOfSrc, optVersion, evb, lk) ==
    LET o1 == getLeader(o, o.parts[1], lk) IN
    IF ~lk.ok THEN SetValue(o1, "E_RPC_FAILURE")
    ELSE getResponse(o1, [kind |-> "update", term |-> termOfSrc, version |-> optVersion,
                          parts |-> o.parts,
                          addr |-> InternalAddr(lk.addr), evb |-> evb,
                          attempt |-> Len(o1.lookups)])
\* chainUpdateEdge without the return after the failed lookup.
chainUpdateEdgeNoReturn(o, termOfSrc, optVersion, evb, lk) ==
    LET o1 == getLeader(o, o.parts[1], lk)
        o2 == IF ~lk.ok THEN SetValue(o1, "E_SPACE_NOT_FOUND") ELSE o1
    IN  getResponse(o2, [kind |-> "update", term |-> termOfSrc, version |-> optVersion,
                         parts |-> o.parts,
                         addr |-> InternalAddr(lk.addr), evb |-> evb,
                         attempt |-> Len(o1.lookups)])
chainUpdateEdge(o, termOfSrc, optVersion, evb, lk) ==
    LET o1 == getLeader(o, o.parts[1], lk) IN
    IF ~lk.ok THEN SetValue(o1, "E_SPACE_NOT_FOUND")
    ELSE getResponse(o1, [kind |-> "update", term |-> termOfSrc, version |-> optVersion,
                          parts |-> o.parts,
                          addr |-> InternalAddr(lk.addr), evb |-> evb,
                          attempt |-> Len(o1.lookups)])

\* chainAddEdges reporting, on a retry, the previous answer when the lookup fails.
chainAddEdgesKeepsCode(o, termId, optVersion, evb, lk) ==
    LET o1 == getLeader(o, FirstPartKey(o.parts), lk) IN
    IF ~lk.ok
    THEN SetValue(o1, IF o1.codes = <<>> THEN "E_SPACE_NOT_FOUND" ELSE o1.codes[Len(o1.codes)])
    ELSE getResponse(o1, makeChainAddReq(o1, termId, optVersion)
                         @@ [addr |-> InternalAddr(lk.addr), evb |-> evb,
                             attempt |-> Len(o1.lookups)])
chainAddEdges(o, termId, optVersion, evb, lk) ==
    LET o1 == getLeader(o, FirstPartKey(o.parts), lk) IN
    IF ~lk.ok THEN SetValue(o1, "E_SPACE_NOT_FOUND")
    ELSE getResponse(o1, makeChainAddReq(o1, termId, optVersion)
                         @@ [addr |-> InternalAddr(lk.addr), evb |-> evb,
                             attempt |-> Len(o1.lookups)])

chainDeleteEdges(o, termId, evb, lk) ==
    LET o1 == getLeader(o, FirstPartKey(o.parts), lk) IN
    IF ~lk.ok THEN SetValue(o1, "E_SPACE_NOT_FOUND")
    ELSE getResponse(o1, [kind |-> "delete", term |-> termId, version |-> NoVersion,
                          parts |-> o.parts,
                          addr |-> InternalAddr(lk.addr), evb |-> evb,
                          attempt |-> Len(o1.lookups)])

\* One invocation of the operation of o's kind.
ChainInvoke(o, evb, lk) ==
    CASE o.kind = "update" -> chainUpdateEdge(o, o.term, o.version, evb, lk)
      [] o.kind = "add"    -> chainAddEdges(o, o.term, o.version, evb, lk)
      [] o.kind = "delete" -> chainDeleteEdges(o, o.term, evb, lk)

\* The continuations' test code == E_LEADER_CHANGED.
ShouldRetryInverted(code) == code # "E_LEADER_CHANGED"
ShouldRetryAlsoUnknown(code) == code \in {"E_LEADER_CHANGED", "E_UNKNOWN"}
ShouldRetry(code) == code = "E_LEADER_CHANGED"

\* A continuation that gives up after the second leader-changed answer.
ChainContinuationBounded(o, t, lk) ==
    LET code == getErrorCode(t)
        o1 == [o EXCEPT !.inflight = @ - 1, !.resps = Append(@, t),
                        !.codes = Append(@, code)]
    IN  IF ShouldRetry(code) /\ Len(o1.resps) < 2
        THEN ChainInvoke(o1, DefaultEvb, lk) ELSE SetValue(o1, code)
\* A continuation that sends the previous request again, without a lookup.
ChainContinuationResend(o, t, lk) ==
    LET code == getErrorCode(t)
        o1 == [o EXCEPT !.inflight = @ - 1, !.resps = Append(@, t),
                        !.codes = Append(@, code)]
    IN  IF ShouldRetry(code) THEN getResponse(o1, o1.sent[Len(o1.sent)])
        ELSE SetValue(o1, code)
\* The thenTry continuation of each operation: the retry re-invokes the
\* operation without an event base, any other code goes to the promise.
chainUpdateEdgeThen(o, t, lk) ==
    LET code == getErrorCode(t)
        o1 == [o EXCEPT !.inflight = @ - 1, !.resps = Append(@, t),
                        !.codes = Append(@, code)]
    IN  IF ShouldRetry(code)
        THEN chainUpdateEdge(o1, o1.term, o1.version, DefaultEvb, lk)
        ELSE SetValue(o1, code)
chainAddEdgesThen(o, t, lk) ==
    LET code == getErrorCode(t)
        o1 == [o EXCEPT !.inflight = @ - 1, !.resps = Append(@, t),
                        !.codes = Append(@, code)]
    IN  IF ShouldRetry(code)
        THEN chainAddEdges(o1, o1.term, o1.version, DefaultEvb, lk)
        ELSE SetValue(o1, code)
\* The continuation of chainDeleteEdges giving every code to the promise.
chainDeleteEdgesThenNoRetry(o, t, lk) ==
    LET code == getErrorCode(t)
        o1 == [o EXCEPT !.inflight = @ - 1, !.resps = Append(@, t),
                        !.codes = Append(@, code)]
    IN  SetValue(o1, code)
chainDeleteEdgesThen(o, t, lk) ==
    LET code == getErrorCode(t)
        o1 == [o EXCEPT !.inflight = @ - 1, !.resps = Append(@, t),
                        !.codes = Append(@, code)]
    IN  IF ShouldRetry(code)
        THEN chainDeleteEdges(o1, o1.term, DefaultEvb, lk)
        ELSE SetValue(o1, code)

\* A continuation that sleeps on leader-changed and returns without
\* re-invoking the operation.
ChainContinuationNoReinvoke(o, t, lk) ==
    LET code == getErrorCode(t)
        o1 == [o EXCEPT !.inflight = @ - 1, !.resps = Append(@, t),
                        !.codes = Append(@, code)]
    IN  IF ShouldRetry(code) THEN o1 ELSE SetValue(o1, code)
\* The continuation of the operation of o's kind.
ChainContinuation(o, t, lk) ==
    CASE o.kind = "update" -> chainUpdateEdgeThen(o, t, lk)
      [] o.kind = "add"    -> chainAddEdgesThen(o, t, lk)
      [] o.kind = "delete" -> chainDeleteEdgesThen(o, t, lk)

\* The caller issues one of the three operations.
ChainCall ==
    /\ chain.pc = "idle"
    /\ \E k \in ChainKinds, t \in Terms, v \in Versions, lk \in LeaderResults,
          ps \in UpdateParts \cup BatchParts :
         /\ k = "delete" => v = NoVersion
         /\ ps \in (IF k = "update" THEN UpdateParts ELSE BatchParts)
         /\ chain' = ChainInvoke([chain EXCEPT !.kind = k, !.term = t, !.version = v,
                                               !.parts = ps],
                                 CallerEvb, lk)
    /\ UNCHANGED <<snap, part, peer, trio, ops, zone>>

\* The future of the request in flight completes and its continuation runs.
ChainResponse ==
    /\ chain.pc = "sending"
    /\ chain.inflight > 0
    /\ \E t \in TryResponses, lk \in LeaderResults :
         /\ ShouldRetry(getErrorCode(t)) => Len(chain.sent) < MaxAttempts
         /\ ~ShouldRetry(getErrorCode(t)) => lk = [ok |-> FALSE, addr |-> NoAddr]
         /\ chain' = ChainContinuation(chain, t, lk)
    /\ UNCHANGED <<snap, part, peer, trio, ops, zone>>

(***************************************************************************)
(* The snapshot transfer manager.                                          *)
(***************************************************************************)
\* DEFINE_int32(snapshot_send_retry_times, 3, ...)
FLAGS_snapshot_send_retry_times == 3

SnapshotStatuses == {"IN_PROGRESS", "DONE", "FAILED"}
SendError == "Send snapshot failed!"

\* What becomes of one request: it reaches the receiver or not, and the
\* sender's future yields the receiver's code or throws (a connection error:
\* nothing was delivered; a timeout: the request may have been delivered).
SendOutcomes ==
    { [delivered |-> TRUE,  result |-> "SUCCEEDED"],
      [delivered |-> TRUE,  result |-> "E_PERSIST_SNAPSHOT_FAILED"],
      [delivered |-> TRUE,  result |-> "exception"],
      [delivered |-> FALSE, result |-> "exception"] }

PartInit == [term |-> 1, commitId |-> 1, commitTerm |-> 1]

SnapInit ==
    [ pc          |-> "idle",   \* idle, scheduled, iter, wait, end
      dst         |-> NoAddr,
      termId      |-> 0,        \* the locals of the worker lambda
      commit      |-> <<0, 0>>,
      cbs         |-> <<>>,     \* the status of every callback made, in order
      rets        |-> <<>>,     \* what every finished callback returned
      retry       |-> 0,        \* the running callback's local
      reqs        |-> <<>>,     \* every request given to send(), in order
      outstanding |-> 0,        \* requests whose future has not completed
      outcomes    |-> <<>>,     \* what became of every completed request
      recv        |-> <<>>,     \* the requests the receiver got, in order
      promise     |-> <<>> ]    \* every value given to p.setValue, in order

\* The iteration is over: the last callback carried DONE or FAILED, or
\* returned false.
IterationOver(s) ==
    /\ Len(s.cbs) > 0
    /\ Len(s.rets) = Len(s.cbs)
    /\ \/ s.cbs[Len(s.cbs)] \in {"DONE", "FAILED"}
       \/ s.rets[Len(s.rets)] = FALSE

\* p.setValue(v), then return ret from the callback.
SnapReturn(s, ret) == [s EXCEPT !.rets = Append(@, ret), !.pc = "iter"]
SnapSetValue(s, v) == [s EXCEPT !.promise = Append(@, v)]

\* part->address(), part->spaceId_, part->partId_: fixed for a partition.
LocalHost == [host |-> "h0", port |-> 9780]
SpaceOfPart == 1
IdOfPart == 1

\* send() given the partition's present term and commit position instead of
\* the values the worker read when it started.
sendPresentState(s, chunk, finished) ==
    [ space |-> SpaceOfPart, part |-> IdOfPart, term |-> part.term,
      committed_log_id |-> part.commitId, committed_log_term |-> part.commitTerm,
      leader_addr |-> LocalHost.host, leader_port |-> LocalHost.port,
      rows |-> chunk, total_size |-> chunk, total_count |-> chunk,
      done |-> finished, addr |-> s.dst ]
\* SnapshotManager::send: the SendSnapshotRequest of chunk number chunk.
send(s, chunk, finished) ==
    [ space |-> SpaceOfPart, part |-> IdOfPart, term |-> s.termId,
      committed_log_id |-> s.commit[1], committed_log_term |-> s.commit[2],
      leader_addr |-> LocalHost.host, leader_port |-> LocalHost.port,
      rows |-> chunk, total_size |-> chunk, total_count |-> chunk,
      done |-> finished, addr |-> s.dst ]

\* auto f = send(...); auto resp = std::move(f).get();
SendNoWait(s, req) ==
    [s EXCEPT !.reqs = Append(@, req), !.outstanding = @ + 1,
              !.rets = Append(@, TRUE), !.pc = "iter"]
SendAndWait(s, req) ==
    [s EXCEPT !.reqs = Append(@, req), !.outstanding = @ + 1, !.pc = "wait"]

\* while (retry-- > 0) { send ... }; after the loop: setValue(error), return false.
RetryLoopNoSet(s) ==
    IF s.retry > 0
    THEN SendAndWait([s EXCEPT !.retry = @ - 1],
                     send(s, Len(s.cbs), s.cbs[Len(s.cbs)] = "DONE"))
    ELSE SnapReturn([s EXCEPT !.retry = @ - 1], FALSE)
\* The loop with the test retry-- >= 0.
RetryLoopOffByOne(s) ==
    IF s.retry >= 0
    THEN SendAndWait([s EXCEPT !.retry = @ - 1],
                     send(s, Len(s.cbs), s.cbs[Len(s.cbs)] = "DONE"))
    ELSE SnapReturn(SnapSetValue([s EXCEPT !.retry = @ - 1], SendError), FALSE)
\* The loop setting the done flag on the first attempt of a chunk only.
RetryLoopDoneOnce(s) ==
    IF s.retry > 0
    THEN SendAndWait([s EXCEPT !.retry = @ - 1],
                     send(s, Len(s.cbs), s.cbs[Len(s.cbs)] = "DONE"
                                         /\ s.retry = FLAGS_snapshot_send_retry_times))
    ELSE SnapReturn(SnapSetValue([s EXCEPT !.retry = @ - 1], SendError), FALSE)
RetryLoop(s) ==
    IF s.retry > 0
    THEN SendAndWait([s EXCEPT !.retry = @ - 1],
                     send(s, Len(s.cbs), s.cbs[Len(s.cbs)] = "DONE"))
    ELSE SnapReturn(SnapSetValue([s EXCEPT !.retry = @ - 1], SendError), FALSE)

\* The callback given to accessAllRowsInSnapshot, up to its first suspension.
SnapshotCallbackNoFailCheck(s, status) ==
    RetryLoop([s EXCEPT !.cbs = Append(@, status),
                        !.retry = FLAGS_snapshot_send_retry_times])
SnapshotCallback(s, status) ==
    LET s1 == [s EXCEPT !.cbs = Append(@, status)] IN
    IF status = "FAILED"
    THEN SnapReturn(SnapSetValue(s1, SendError), FALSE)
    ELSE RetryLoop([s1 EXCEPT !.retry = FLAGS_snapshot_send_retry_times])

\* The value set when the DONE chunk was answered SUCCEEDED.
SuccessValueNow(s, p) == <<p.commitId, p.commitTerm>>
SuccessValue(s, p) == s.commit

\* The callback from the completion of f.get() on.
\* AfterGet with the receiver's error code handled like an exception.
AfterGetRetryOnError(s, p, out) ==
    LET s1 == [s EXCEPT !.outstanding = @ - 1,
                        !.outcomes = Append(@, out),
                        !.recv = IF out.delivered THEN Append(@, s.reqs[Len(s.reqs)]) ELSE @]
    IN  IF out.result = "SUCCEEDED"
        THEN IF s1.cbs[Len(s1.cbs)] = "DONE"
             THEN SnapReturn(SnapSetValue(s1, SuccessValue(s1, p)), TRUE)
             ELSE SnapReturn(s1, TRUE)
        ELSE RetryLoop(s1)
\* AfterGet setting the success value at every SUCCEEDED answer.
AfterGetResolveEveryChunk(s, p, out) ==
    LET s1 == [s EXCEPT !.outstanding = @ - 1,
                        !.outcomes = Append(@, out),
                        !.recv = IF out.delivered THEN Append(@, s.reqs[Len(s.reqs)]) ELSE @]
    IN  IF out.result = "SUCCEEDED"
        THEN SnapReturn(SnapSetValue(s1, SuccessValue(s1, p)), TRUE)
        ELSE IF out.result = "exception"
             THEN RetryLoop(s1)
             ELSE SnapReturn(SnapSetValue(s1, SendError), FALSE)
AfterGet(s, p, out) ==
    LET s1 == [s EXCEPT !.outstanding = @ - 1,
                        !.outcomes = Append(@, out),
                        !.recv = IF out.delivered THEN Append(@, s.reqs[Len(s.reqs)]) ELSE @]
    IN  IF out.result = "SUCCEEDED"
        THEN IF s1.cbs[Len(s1.cbs)] = "DONE"
             THEN SnapReturn(SnapSetValue(s1, SuccessValue(s1, p)), TRUE)
             ELSE SnapReturn(s1, TRUE)
        ELSE IF out.result = "exception"
             THEN RetryLoop(s1)
             ELSE SnapReturn(SnapSetValue(s1, SendError), FALSE)

\* sendSnapshot(part, dst): the promise is made and the work is queued.
SendSnapshot ==
    /\ snap.pc = "idle"
    /\ \E d \in HostAddrs : snap' = [snap EXCEPT !.pc = "scheduled", !.dst = d]
    /\ UNCHANGED <<chain, part, peer, trio, ops, zone>>

\* The worker runs the lambda: it reads the partition and starts the iteration.
SnapWorkerStart ==
    /\ snap.pc = "scheduled"
    /\ snap' = [snap EXCEPT !.pc = "iter", !.termId = part.term,
                            !.commit = <<part.commitId, part.commitTerm>>]
    /\ UNCHANGED <<chain, part, peer, trio, ops, zone>>

\* The row iteration calls back, as its protocol allows.
SnapCallback ==
    /\ snap.pc = "iter"
    /\ ~IterationOver(snap)
    /\ Len(snap.cbs) < MaxChunks
    /\ \E st \in SnapshotStatuses :
         /\ Len(snap.cbs) = MaxChunks - 1 => st # "IN_PROGRESS"
         /\ snap' = SnapshotCallback(snap, st)
    /\ UNCHANGED <<chain, part, peer, trio, ops, zone>>

\* The request in flight completes.
SnapResponse ==
    /\ snap.pc = "wait"
    /\ snap.outstanding > 0
    /\ \E out \in SendOutcomes : snap' = AfterGet(snap, part, out)
    /\ UNCHANGED <<chain, part, peer, trio, ops, zone>>

\* accessAllRowsInSnapshot returns once the iteration is over.
SnapIterReturn ==
    /\ snap.pc = "iter"
    /\ IterationOver(snap)
    /\ snap' = [snap EXCEPT !.pc = "end"]
    /\ UNCHANGED <<chain, part, peer, trio, ops, zone>>

\* No callback was made after the iteration was over.
NoCallbackAfterOver(s) ==
    \A i \in 1..(Len(s.cbs) - 1) : s.cbs[i] = "IN_PROGRESS" /\ s.rets[i] = TRUE

\* A row iteration that breaks the protocol, once in a transfer: it calls back
\* although the iteration is over, or returns before it is.
SnapRogueCallback ==
    /\ snap.pc = "iter"
    /\ IterationOver(snap)
    /\ NoCallbackAfterOver(snap)
    /\ Len(snap.cbs) < MaxChunks
    /\ \E st \in SnapshotStatuses : snap' = SnapshotCallback(snap, st)
    /\ UNCHANGED <<chain, part, peer, trio, ops, zone>>

SnapRogueReturn ==
    /\ snap.pc = "iter"
    /\ ~IterationOver(snap)
    /\ snap' = [snap EXCEPT !.pc = "end"]
    /\ UNCHANGED <<chain, part, peer, trio, ops, zone>>

\* The partition commits a log entry, in its term or in a new one.
PartAdvance ==
    /\ part.commitId < MaxLogId
    /\ \E newTerm \in BOOLEAN :
         part' = [ term       |-> IF newTerm THEN part.term + 1 ELSE part.term,
                   commitId   |-> part.commitId + 1,
                   commitTerm |-> IF newTerm THEN part.term + 1 ELSE part.term ]
    /\ UNCHANGED <<chain, snap, peer, trio, ops, zone>>

(***************************************************************************)
(* The receiver of the chain requests (the peer partition's leader): it    *)
(* checks the originating term against the term it knows of the source     *)
(* partition before it applies the mutation.                               *)
(***************************************************************************)
PeerInit ==
    [ srcTerm |-> 1,      \* the term of the source partition the receiver knows
      applied |-> <<>> ]  \* the requests applied: their term, and the term known then

\* The originating term is older than the receiver's bookkeeping.
TermNeverStale(pr, req) == FALSE
TermIsStale(pr, req) == req.term < pr.srcTerm

\* The receiver handles req: the state it ends in and the response it gives.
PeerHandle(pr, req, isLeader) ==
    IF TermIsStale(pr, req)
    THEN [peer |-> pr,
          resp |-> [hasValue |-> TRUE, status |-> "ok", failed |-> <<"E_OUTDATED_TERM">>]]
    ELSE IF ~isLeader
    THEN [peer |-> pr,
          resp |-> [hasValue |-> TRUE, status |-> "ok", failed |-> <<"E_LEADER_CHANGED">>]]
    ELSE [peer |-> [pr EXCEPT !.srcTerm = req.term,
                              !.applied = Append(@, [term |-> req.term, known |-> pr.srcTerm])],
          resp |-> [hasValue |-> TRUE, status |-> "ok", failed |-> <<>>]]

\* The receiver learns that the source partition has moved to a later term.
PeerLearnTerm ==
    /\ peer.srcTerm < MaxSrcTerm
    /\ peer' = [peer EXCEPT !.srcTerm = @ + 1]
    /\ UNCHANGED <<chain, snap, part, trio, ops, zone>>

\* The request in flight reaches the receiver, and its answer the client.
PeerProcess ==
    /\ chain.pc = "sending"
    /\ chain.inflight > 0
    /\ \E isLeader \in BOOLEAN, lk \in LeaderResults :
         LET h == PeerHandle(peer, chain.sent[Len(chain.sent)], isLeader) IN
         /\ ShouldRetry(getErrorCode(h.resp)) => Len(chain.sent) < MaxAttempts
         /\ ~ShouldRetry(getErrorCode(h.resp)) => lk = [ok |-> FALSE, addr |-> NoAddr]
         /\ peer' = h.peer
         /\ chain' = ChainContinuation(chain, h.resp, lk)
    /\ UNCHANGED <<snap, part, trio, ops, zone>>

(***************************************************************************)
(* The three chain operations side by side: one operation of each kind,    *)
(* issued with the same term and version and with requests of the same     *)
(* first partition, every attempt of the three given the same lookup       *)
(* result and the same answer.                                             *)
(***************************************************************************)
TrioInit == [k \in ChainKinds |-> [ChainInit EXCEPT !.kind = k]]

\* The three operations are issued.
TrioCall ==
    /\ \A k \in ChainKinds : trio[k].pc = "idle"
    /\ \E t \in Terms, v \in Versions, lk \in LeaderResults, ps \in BatchParts :
         trio' = [k \in ChainKinds |->
                    ChainInvoke([trio[k] EXCEPT
                                   !.term = t,
                                   !.version = IF k = "delete" THEN NoVersion ELSE v,
                                   !.parts = IF k = "update" THEN <<ps[1]>> ELSE ps],
                                CallerEvb, lk)]
    /\ UNCHANGED <<chain, snap, part, peer, ops, zone>>

\* The requests in flight are answered alike and the continuations run.
TrioResponse ==
    /\ \E k \in ChainKinds : trio[k].pc = "sending" /\ trio[k].inflight > 0
    /\ \E t \in TryResponses, lk \in LeaderResults :
         /\ ShouldRetry(getErrorCode(t))
              => \A k \in ChainKinds : Len(trio[k].sent) < MaxAttempts
         /\ ~ShouldRetry(getErrorCode(t)) => lk = [ok |-> FALSE, addr |-> NoAddr]
         /\ trio' = [k \in ChainKinds |->
                       IF trio[k].pc = "sending" /\ trio[k].inflight > 0
                       THEN ChainContinuation(trio[k], t, lk)
                       ELSE trio[k]]
    /\ UNCHANGED <<chain, snap, part, peer, ops, zone>>

(***************************************************************************)
(* Two operations running concurrently: each slot holds one chain          *)
(* operation or one snapshot transfer, and the steps of the two interleave.*)
(***************************************************************************)
\* Bounds of the concurrent runs: attempts of a chain operation and
\* callbacks of a transfer.
MaxConcAttempts == 2
MaxConcChunks == 1

Slots == {1, 2}
ConcLeaderResults ==
    {[ok |-> FALSE, addr |-> NoAddr], [ok |-> TRUE, addr |-> [host |-> "h1", port |-> 9779]]}
ConcResponses ==
    { [hasValue |-> FALSE, status |-> "none", failed |-> <<>>],
      [hasValue |-> TRUE, status |-> "kLeaderChanged", failed |-> <<>>],
      [hasValue |-> TRUE, status |-> "ok", failed |-> <<>>] }

OpsInit == [i \in Slots |-> [c |-> ChainInit, s |-> SnapInit]]

\* No operation was issued in slot i.
Free(i) == ops[i].c.pc = "idle" /\ ops[i].s.pc = "idle"

\* The state of an operation lives in its own closures ([=, p = std::move(p)]):
\* a step of operation i changes the state of operation i.
UpdateShared(os, i, st) == [j \in DOMAIN os |-> st]
UpdateOwn(os, i, st) == [os EXCEPT ![i] = st]

OpChainCall(i) ==
    /\ Free(i)
    /\ \E k \in ChainKinds, lk \in ConcLeaderResults :
         ops' = UpdateOwn(ops, i,
                   [ops[i] EXCEPT !.c = ChainInvoke([ops[i].c EXCEPT !.kind = k],
                                                    CallerEvb, lk)])
    /\ UNCHANGED <<chain, snap, part, peer, trio, zone>>

OpChainResponse(i) ==
    /\ ops[i].c.pc = "sending"
    /\ ops[i].c.inflight > 0
    /\ \E t \in ConcResponses, lk \in ConcLeaderResults :
         /\ ShouldRetry(getErrorCode(t)) => Len(ops[i].c.sent) < MaxConcAttempts
         /\ ~ShouldRetry(getErrorCode(t)) => ~lk.ok
         /\ ops' = UpdateOwn(ops, i, [ops[i] EXCEPT !.c = ChainContinuation(ops[i].c, t, lk)])
    /\ UNCHANGED <<chain, snap, part, peer, trio, zone>>

OpSendSnapshot(i) ==
    /\ Free(i)
    /\ ops' = UpdateOwn(ops, i, [ops[i] EXCEPT !.s.pc = "scheduled",
                                               !.s.dst = [host |-> "h2", port |-> 9779]])
    /\ UNCHANGED <<chain, snap, part, peer, trio, zone>>

OpSnapWorkerStart(i) ==
    /\ ops[i].s.pc = "scheduled"
    /\ ops' = UpdateOwn(ops, i, [ops[i] EXCEPT !.s.pc = "iter", !.s.termId = part.term,
                                               !.s.commit = <<part.commitId, part.commitTerm>>])
    /\ UNCHANGED <<chain, snap, part, peer, trio, zone>>

OpSnapCallback(i) ==
    /\ ops[i].s.pc = "iter"
    /\ ~IterationOver(ops[i].s)
    /\ Len(ops[i].s.cbs) < MaxConcChunks
    /\ \E st \in SnapshotStatuses :
         /\ Len(ops[i].s.cbs) = MaxConcChunks - 1 => st # "IN_PROGRESS"
         /\ ops' = UpdateOwn(ops, i, [ops[i] EXCEPT !.s = SnapshotCallback(ops[i].s, st)])
    /\ UNCHANGED <<chain, snap, part, peer, trio, zone>>

OpSnapResponse(i) ==
    /\ ops[i].s.pc = "wait"
    /\ ops[i].s.outstanding > 0
    /\ \E out \in SendOutcomes :
         ops' = UpdateOwn(ops, i, [ops[i] EXCEPT !.s = AfterGet(ops[i].s, part, out)])
    /\ UNCHANGED <<chain, snap, part, peer, trio, zone>>

OpSnapIterReturn(i) ==
    /\ ops[i].s.pc = "iter"
    /\ IterationOver(ops[i].s)
    /\ ops' = UpdateOwn(ops, i, [ops[i] EXCEPT !.s.pc = "end"])
    /\ UNCHANGED <<chain, snap, part, peer, trio, zone>>

\* A row iteration that breaks the protocol: it returns before it is over.
OpSnapRogueReturn(i) ==
    /\ ops[i].s.pc = "iter"
    /\ ~IterationOver(ops[i].s)
    /\ ops' = UpdateOwn(ops, i, [ops[i] EXCEPT !.s.pc = "end"])
    /\ UNCHANGED <<chain, snap, part, peer, trio, zone>>

(***************************************************************************)
(* The meta service's DivideZone processor                                 *)
(* (meta/processors/zone/DivideZoneProcessor.cpp).                         *)
(***************************************************************************)
\* Largest number of zone items in one request.
MaxZoneItems == 2

ZoneHostNames == {"h1", "h2", "h3"}
\* The hosts list of one zone item, as the request gives it.
ItemHostLists ==
    { <<>>,
      <<"h1">>, <<"h2">>, <<"h3">>,
      <<"h1", "h1">>,
      <<"h1", "h2">>, <<"h2", "h3">>,
      <<"h1", "h2", "h1">>,
      <<"h1", "h2", "h3">> }
\* The zone to divide, a zone that may exist beside it, and new names.
OriginalZone == "z0"
OtherZone == "e"
NewZoneNames == {"a", "b", OtherZone}
SpaceIds == <<"s1", "s2">>

\* zone_items in the order the loop visits them; the names are keys of a map.
ZoneItemLists ==
    UNION { { its \in [1..n -> [name : NewZoneNames, hosts : ItemHostLists]] :
                \A i \in 1..n, j \in 1..n : i # j => its[i].name # its[j].name }
            : n \in 0..MaxZoneItems }

\* The zone records and the space records of the meta store: zones maps the
\* name of every existing zone to its hosts, spaces every space to its
\* zone_names. A space names existing zones, each once.
ZoneTables ==
    { [z \in S |-> IF z = OriginalZone THEN h ELSE <<"h4">>] :
        S \in SUBSET {OriginalZone, OtherZone},
        h \in {<<"h1", "h2">>, <<"h1", "h2", "h3">>} }
SpaceZoneLists ==
    { <<OriginalZone>>, <<OtherZone>>, <<OriginalZone, OtherZone>>,
      <<OtherZone, OriginalZone>> }
SpaceTables(zt) ==
    { f \in [{SpaceIds[1], SpaceIds[2]} -> SpaceZoneLists] :
        \A id \in DOMAIN f : \A k \in DOMAIN f[id] : f[id][k] \in DOMAIN zt }
MetaStores ==
    UNION { { [zones |-> zt, spaces |-> sp] : sp \in SpaceTables(zt) } : zt \in ZoneTables }

ZoneInit ==
    [ pc      |-> "idle",     \* idle, done (onFinished or doBatchOperation ran)
      before  |-> [zones |-> <<>>, spaces |-> <<>>],  \* the store as process found it
      store   |-> [zones |-> <<>>, spaces |-> <<>>],  \* the store afterwards
      items   |-> <<>>,       \* the request's zone_items
      code    |-> "none",     \* the code given to handleErrorCode, or SUCCEEDED
      batches |-> <<>> ]      \* every batch given to doBatchOperation

\* std::find(v.begin(), v.end(), x) != v.end()
Contains(v, x) == \E k \in DOMAIN v : v[k] = x

\* std::unique(hosts.begin(), hosts.end()) != hosts.end(): some element
\* equals its predecessor.
UniqueFinds(hosts) ==
    \E i \in 1..(Len(hosts) - 1) : hosts[i] = hosts[i + 1]

\* The locals of process before the loop over zone_items.
LoopStart ==
    [ zoneNames  |-> <<>>,
      totalHosts |-> {},
      batch      |-> <<>>,      \* the operations held by batchHolder, in order
      code       |-> "SUCCEEDED",
      broke      |-> FALSE ]    \* the loop was left by break

\* One pass of the loop over zone_items, for the item it; first without the
\* test hosts.empty().
LoopBodyNoEmptyCheck(zones, a, it) ==
    IF it.name \in DOMAIN zones
    THEN [a EXCEPT !.code = "E_EXISTED", !.broke = TRUE]
    ELSE IF Contains(a.zoneNames, it.name)
    THEN [a EXCEPT !.code = "E_INVALID_PARM", !.broke = TRUE]
    ELSE LET a1 == [a EXCEPT !.zoneNames = Append(@, it.name)] IN
         IF UniqueFinds(it.hosts)
         THEN [a1 EXCEPT !.code = "E_INVALID_PARM", !.broke = TRUE]
         ELSE [a1 EXCEPT !.totalHosts = @ \cup {it.hosts[k] : k \in DOMAIN it.hosts},
                         !.batch = Append(@, [op |-> "put", table |-> "zones",
                                              key |-> it.name, val |-> it.hosts])]
LoopBody(zones, a, it) ==
    IF it.name \in DOMAIN zones
    THEN [a EXCEPT !.code = "E_EXISTED", !.broke = TRUE]
    ELSE IF Contains(a.zoneNames, it.name)
    THEN [a EXCEPT !.code = "E_INVALID_PARM", !.broke = TRUE]
    ELSE LET a1 == [a EXCEPT !.zoneNames = Append(@, it.name)]
             a2 == IF it.hosts = <<>> THEN [a1 EXCEPT !.code = "E_INVALID_PARM"] ELSE a1
         IN  IF UniqueFinds(it.hosts)
             THEN [a2 EXCEPT !.code = "E_INVALID_PARM", !.broke = TRUE]
             ELSE [a2 EXCEPT !.totalHosts = @ \cup {it.hosts[k] : k \in DOMAIN it.hosts},
                             !.batch = Append(@, [op |-> "put", table |-> "zones",
                                                  key |-> it.name, val |-> it.hosts])]

\* for (auto iter = zoneItems.begin(); iter != zoneItems.end(); iter++)
RECURSIVE ItemsLoop(_, _, _, _)
ItemsLoop(zones, items, i, a) ==
    IF i > Len(items) \/ a.broke THEN a
    ELSE ItemsLoop(zones, items, i + 1, LoopBody(zones, a, items[i]))

\* zones.erase(it) for the first occurrence of name, then every new zone is
\* appended.
ReplaceZoneKeepsOriginal(zones, name, zoneNames) == zones \o zoneNames
ReplaceZone(zones, name, zoneNames) ==
    LET k == CHOOSE i \in DOMAIN zones :
                 zones[i] = name /\ \A j \in 1..(i - 1) : zones[j] # name
    IN  SubSeq(zones, 1, k - 1) \o SubSeq(zones, k + 1, Len(zones)) \o zoneNames

\* The while loop of updateSpacesZone, over the spaces in key order.
RECURSIVE SpacesLoop(_, _, _, _, _)
SpacesLoop(spaces, i, batch, originalZoneName, zoneNames) ==
    IF i > Len(SpaceIds) THEN batch
    ELSE LET id == SpaceIds[i]
             zs == spaces[id]
         IN  SpacesLoop(spaces, i + 1,
                        IF Contains(zs, originalZoneName)
                        THEN Append(batch, [op |-> "put", table |-> "spaces", key |-> id,
                                            val |-> ReplaceZone(zs, originalZoneName, zoneNames)])
                        ELSE batch,
                        originalZoneName, zoneNames)

\* updateSpacesZone: the code it returns and the batch it leaves.
updateSpacesZone(spaces, prefixOk, batch, originalZoneName, zoneNames) ==
    IF ~prefixOk
    THEN [code |-> "E_KEY_NOT_FOUND", batch |-> batch]
    ELSE [code |-> "SUCCEEDED",
          batch |-> SpacesLoop(spaces, 1, batch, originalZoneName, zoneNames)]

\* The store after the operations of a batch were applied in order.
RECURSIVE ApplyBatch(_, _, _)
ApplyBatch(st, batch, i) ==
    IF i > Len(batch) THEN st
    ELSE LET b == batch[i]
             st1 == IF b.table = "spaces"
                    THEN [st EXCEPT !.spaces = [id \in DOMAIN st.spaces |->
                                                  IF id = b.key THEN b.val ELSE st.spaces[id]]]
                    ELSE IF b.op = "remove"
                    THEN [st EXCEPT !.zones = [z \in DOMAIN st.zones \ {b.key} |-> st.zones[z]]]
                    ELSE [st EXCEPT !.zones = [z \in DOMAIN st.zones \cup {b.key} |->
                                                 IF z = b.key THEN b.val ELSE st.zones[z]]]
         IN  ApplyBatch(st1, batch, i + 1)

\* handleErrorCode(code); onFinished(); return;
Finished(z, code) == [z EXCEPT !.pc = "done", !.code = code]
\* doBatchOperation(batch)
doBatchOperation(z, batch) ==
    [z EXCEPT !.pc = "done", !.code = "SUCCEEDED",
              !.batches = Append(@, batch),
              !.store = ApplyBatch(z.store, batch, 1)]

\* DivideZoneProcessor::process on the store st.
processWritesOnError(z0, st, zoneName, items, prefixOk) ==
    LET z == [z0 EXCEPT !.before = st, !.store = st, !.items = items] IN
    IF zoneName \notin DOMAIN st.zones THEN Finished(z, "E_ZONE_NOT_FOUND")
    ELSE LET zoneHosts == st.zones[zoneName] IN
    IF Len(items) > Len(zoneHosts) THEN Finished(z, "E_INVALID_PARM")
    ELSE LET a == ItemsLoop(st.zones, items, 1, LoopStart) IN
    IF a.code # "SUCCEEDED" THEN Finished(doBatchOperation(z, a.batch), a.code)
    ELSE IF Cardinality(a.totalHosts) # Len(zoneHosts) THEN Finished(z, "E_INVALID_PARM")
    ELSE IF \E host \in a.totalHosts : ~Contains(zoneHosts, host)
    THEN Finished(z, "E_INVALID_PARM")
    ELSE LET b1 == Append(a.batch, [op |-> "remove", table |-> "zones",
                                    key |-> zoneName, val |-> <<>>])
             u == updateSpacesZone(st.spaces, prefixOk, b1, zoneName, a.zoneNames)
         IN  IF u.code # "SUCCEEDED" THEN Finished(z, u.code)
             ELSE doBatchOperation(z, u.batch)
process(z0, st, zoneName, items, prefixOk) ==
    LET z == [z0 EXCEPT !.before = st, !.store = st, !.items = items] IN
    IF zoneName \notin DOMAIN st.zones THEN Finished(z, "E_ZONE_NOT_FOUND")
    ELSE LET zoneHosts == st.zones[zoneName] IN
    IF Len(items) > Len(zoneHosts) THEN Finished(z, "E_INVALID_PARM")
    ELSE LET a == ItemsLoop(st.zones, items, 1, LoopStart) IN
    IF a.code # "SUCCEEDED" THEN Finished(z, a.code)
    ELSE IF Cardinality(a.totalHosts) # Len(zoneHosts) THEN Finished(z, "E_INVALID_PARM")
    ELSE IF \E host \in a.totalHosts : ~Contains(zoneHosts, host)
    THEN Finished(z, "E_INVALID_PARM")
    ELSE LET b1 == Append(a.batch, [op |-> "remove", table |-> "zones",
                                    key |-> zoneName, val |-> <<>>])
             u == updateSpacesZone(st.spaces, prefixOk, b1, zoneName, a.zoneNames)
         IN  IF u.code # "SUCCEEDED" THEN Finished(z, u.code)
             ELSE doBatchOperation(z, u.batch)

\* A DivideZone request arrives and is processed.
DivideZone ==
    /\ zone.pc = "idle"
    /\ \E st \in MetaStores, items \in ZoneItemLists, prefixOk \in BOOLEAN :
         zone' = process(zone, st, OriginalZone, items, prefixOk)
    /\ UNCHANGED <<chain, snap, part, peer, trio, ops>>

(***************************************************************************)
(* Specifications.                                                         *)
(***************************************************************************)
Init ==
    /\ chain = ChainInit /\ snap = SnapInit /\ part = PartInit /\ peer = PeerInit
    /\ trio = TrioInit /\ ops = OpsInit
    /\ zone = ZoneInit

\* The chain client with the receiver that checks the originating term.
NextChainPeer == ChainCall \/ PeerLearnTerm \/ PeerProcess
SpecChainPeer == Init /\ [][NextChainPeer]_vars

NextChain == ChainCall \/ ChainResponse
SpecChain == Init /\ [][NextChain]_vars

\* The three operations on the same inputs.
NextTrio == TrioCall \/ TrioResponse
SpecTrio == Init /\ [][NextTrio]_vars

\* Two operations, of either sort, interleaved; the row iteration of a
\* transfer may return early.
NextConcurrent ==
    \E i \in Slots :
        \/ OpChainCall(i) \/ OpChainResponse(i)
        \/ OpSendSnapshot(i) \/ OpSnapWorkerStart(i) \/ OpSnapCallback(i)
        \/ OpSnapResponse(i) \/ OpSnapIterReturn(i) \/ OpSnapRogueReturn(i)
SpecConcurrent == Init /\ [][NextConcurrent]_vars

\* The DivideZone processor.
NextZone == DivideZone
SpecZone == Init /\ [][NextZone]_vars

NextSnapshot ==
    \/ SendSnapshot \/ SnapWorkerStart \/ SnapCallback \/ SnapResponse
    \/ SnapIterReturn \/ PartAdvance
SpecSnapshot == Init /\ [][NextSnapshot]_vars

\* The chain client on an event base that runs every continuation whose
\* future has completed, with a peer that stops answering leader-changed
\* (ChainResponse does so at the MaxAttempts-th request).
SpecChainFair == Init /\ [][NextChain]_vars /\ WF_vars(ChainResponse)
\* The transfer with a row iteration that may break its protocol.
NextSnapshotAny ==
    \/ SendSnapshot \/ SnapWorkerStart \/ SnapCallback \/ SnapResponse
    \/ SnapIterReturn \/ SnapRogueCallback \/ SnapRogueReturn
SpecSnapshotAny == Init /\ [][NextSnapshotAny]_vars

(***************************************************************************)
(* Properties of the chain write client.                                   *)
(***************************************************************************)
AllLookupsOk == \A i \in DOMAIN chain.lookups : chain.lookups[i].ok

\* The response names leader-changed, in its status or in a failed part.
MentionsLeaderChanged(t) ==
    /\ t.hasValue
    /\ \/ t.status = "kLeaderChanged"
       \/ \E i \in DOMAIN t.failed : t.failed[i] = "E_LEADER_CHANGED"

\* The peer answers leader-changed: by the status, or by every failed part.
AnswersLeaderChanged(t) ==
    /\ t.hasValue
    /\ \/ t.status = "kLeaderChanged"
       \/ /\ t.status = "ok"
          /\ t.failed # <<>>
          /\ \A i \in DOMAIN t.failed : t.failed[i] = "E_LEADER_CHANGED"

AnswersSuccess(t) == t.hasValue /\ t.status = "ok" /\ t.failed = <<>>

\* The code the peer returned in a received, ok response that reports at most
\* one distinct failure.
PeerReturned(t, code) ==
    IF t.failed = <<>> THEN code = "SUCCEEDED"
    ELSE \A i \in DOMAIN t.failed : t.failed[i] = code

\* C1: for each of the three chain operations, when every leader lookup
\* succeeded and no response named leader-changed, the promise is set exactly
\* once when the operation is over (never before, never twice), after one
\* lookup and one send, and the code set is the code the peer returned:
\* SUCCEEDED for an ok response without failed parts, the failed part's code
\* otherwise.
C1_StablePeerResolvesOnce ==
    (/\ chain.pc # "idle"
     /\ AllLookupsOk
     /\ \A i \in DOMAIN chain.resps : ~MentionsLeaderChanged(chain.resps[i]))
    => /\ Len(chain.promise) <= 1
       /\ chain.pc = "sending" => chain.promise = <<>> /\ chain.resps = <<>>
       /\ chain.pc = "done" =>
            /\ Len(chain.promise) = 1
            /\ Len(chain.resps) = 1 /\ Len(chain.lookups) = 1 /\ Len(chain.sent) = 1
            /\ (chain.resps[1].hasValue /\ chain.resps[1].status = "ok")
                 => PeerReturned(chain.resps[1], chain.promise[1])

C1_Witness ==
    /\ chain.pc = "done"
    /\ chain.kind = "delete"
    /\ AllLookupsOk
    /\ chain.resps = <<[hasValue |-> TRUE, status |-> "ok", failed |-> <<"E_KEY_NOT_FOUND">>]>>
    /\ chain.promise = <<"E_KEY_NOT_FOUND">>

\* C2: when every lookup succeeds and the peer has answered leader-changed to
\* the first N sends, N+1 lookups and N+1 sends have been made and the promise
\* is not set; when it then answers success to send N+1, the promise is set
\* once, with SUCCEEDED, and the counts are still N+1.
C2_RetryCounts ==
    LET n == Len(chain.resps) IN
    /\ (/\ chain.pc # "idle"
        /\ AllLookupsOk
        /\ \A i \in 1..n : AnswersLeaderChanged(chain.resps[i]))
       => /\ Len(chain.lookups) = n + 1
          /\ Len(chain.sent) = n + 1
          /\ chain.promise = <<>>
    /\ (/\ n >= 1
        /\ AllLookupsOk
        /\ \A i \in 1..(n - 1) : AnswersLeaderChanged(chain.resps[i])
        /\ AnswersSuccess(chain.resps[n]))
       => /\ Len(chain.lookups) = n
          /\ Len(chain.sent) = n
          /\ chain.promise = <<"SUCCEEDED">>
          /\ chain.pc = "done"

C2_Witness ==
    /\ chain.pc = "done"
    /\ Len(chain.resps) = 3
    /\ AnswersLeaderChanged(chain.resps[1])
    /\ AnswersLeaderChanged(chain.resps[2])
    /\ AnswersSuccess(chain.resps[3])
    /\ Len(chain.lookups) = 3
    /\ chain.promise = <<"SUCCEEDED">>

\* C3: when the first leader lookup of a chain operation fails, the promise
\* is set with E_SPACE_NOT_FOUND in that same step, nothing is sent or in
\* flight, and no second lookup is made.
C3_LookupFailure ==
    (Len(chain.lookups) >= 1 /\ ~chain.lookups[1].ok)
    => /\ chain.promise = <<"E_SPACE_NOT_FOUND">>
       /\ chain.sent = <<>>
       /\ chain.inflight = 0
       /\ Len(chain.lookups) = 1
       /\ chain.pc = "done"

C3_Witness ==
    /\ chain.kind = "update"
    /\ Len(chain.lookups) = 1
    /\ ~chain.lookups[1].ok
    /\ chain.promise = <<"E_SPACE_NOT_FOUND">>

\* C8: a chain operation never has more than one request in flight, and
\* request number k+1 is looked up and sent only after k responses (or
\* transport failures) have come back.
C8_OneChainRequestInFlight ==
    /\ chain.inflight <= 1
    /\ Len(chain.sent) = Len(chain.resps) + chain.inflight
    /\ Len(chain.lookups) <= Len(chain.resps) + 1

C8_Witness ==
    /\ Len(chain.sent) = 2
    /\ Len(chain.resps) = 1
    /\ chain.inflight = 1

\* C10: the k-th request of a chain operation is sent in the attempt of the
\* k-th lookup, which succeeded, to that lookup's host at that lookup's port
\* plus kInternalPortOffset.
C10_SentToLookedUpLeader ==
    /\ Len(chain.sent) <= Len(chain.lookups)
    /\ \A k \in DOMAIN chain.sent :
         /\ chain.sent[k].attempt = k
         /\ chain.lookups[k].ok
         /\ chain.sent[k].addr.host = chain.lookups[k].addr.host
         /\ chain.sent[k].addr.port = chain.lookups[k].addr.port + kInternalPortOffset

C10_Witness ==
    /\ Len(chain.sent) = 2
    /\ chain.lookups[1].addr.host = "h1"
    /\ chain.lookups[2].addr.host = "h2"
    /\ chain.sent[1].addr.host = "h1"
    /\ chain.sent[2].addr.host = "h2"

(***************************************************************************)
(* Properties of the snapshot transfer.                                    *)
(***************************************************************************)
\* The row iteration kept its protocol: no callback after the iteration was
\* over, and no return before it was.
ProtocolFollowed ==
    /\ NoCallbackAfterOver(snap)
    /\ snap.pc = "end" => IterationOver(snap)

\* C4 as stated: whatever callbacks the row iteration makes, the future is
\* never set twice, and it is set once accessAllRowsInSnapshot has returned.
C4_ResolvedOnceAnyIteration ==
    /\ Len(snap.promise) <= 1
    /\ snap.pc = "end" => Len(snap.promise) = 1

\* C4, amended: when the row iteration keeps its protocol, the future is
\* never set twice, and it is set exactly once when the iteration is over.
C4_ResolvedOnceUnderProtocol ==
    ProtocolFollowed
    => /\ Len(snap.promise) <= 1
       /\ (snap.pc \in {"iter", "end"} /\ IterationOver(snap)) => Len(snap.promise) = 1
       /\ ~IterationOver(snap) => snap.promise = <<>>

C4_Witness ==
    /\ snap.pc = "end"
    /\ ProtocolFollowed
    /\ snap.cbs = <<"IN_PROGRESS", "IN_PROGRESS">>
    /\ Len(snap.outcomes) = 4
    /\ snap.promise = <<SendError>>

AllDeliveredSucceeded ==
    \A i \in DOMAIN snap.outcomes :
        snap.outcomes[i] = [delivered |-> TRUE, result |-> "SUCCEEDED"]

\* C5: when the iteration made K callbacks, K-1 with IN_PROGRESS and the last
\* with DONE, every request was answered SUCCEEDED and the last callback has
\* returned, the receiver got exactly K requests, request i carrying chunk i,
\* done set on request K only, and the future holds the (LogID, Term) read
\* when the transfer started.
C5_AllChunksInOrder ==
    LET K == Len(snap.cbs) IN
    (/\ K >= 1
     /\ Len(snap.rets) = K
     /\ \A i \in 1..(K - 1) : snap.cbs[i] = "IN_PROGRESS"
     /\ snap.cbs[K] = "DONE"
     /\ AllDeliveredSucceeded)
    => /\ Len(snap.recv) = K
       /\ \A i \in 1..K : snap.recv[i].rows = i /\ (snap.recv[i].done <=> i = K)
       /\ snap.promise = <<snap.commit>>
       /\ snap.recv = snap.reqs

C5_Witness ==
    /\ snap.pc = "end"
    /\ snap.cbs = <<"IN_PROGRESS", "IN_PROGRESS", "DONE">>
    /\ AllDeliveredSucceeded
    /\ Len(snap.recv) = 3
    /\ snap.commit = <<1, 1>>
    /\ part.commitId = 2
    /\ snap.promise = <<<<1, 1>>>>

\* The outcomes of the requests that carried chunk c.
OutcomesOf(c) == {i \in DOMAIN snap.outcomes : snap.reqs[i].rows = c}

\* C6 as stated: when every chunk failed at transport level fewer than
\* snapshot_send_retry_times times and was then answered SUCCEEDED, the last
\* one carrying DONE, the future holds the success value and the receiver got
\* at most one request with done set.
C6_NoDuplicateTerminalMarker ==
    LET K == Len(snap.cbs) IN
    (/\ K >= 1
     /\ Len(snap.rets) = K
     /\ snap.cbs[K] = "DONE"
     /\ \A c \in 1..K :
          /\ \E i \in OutcomesOf(c) : snap.outcomes[i].result = "SUCCEEDED"
          /\ \A i \in OutcomesOf(c) : snap.outcomes[i].result \in {"SUCCEEDED", "exception"}
          /\ Cardinality({i \in OutcomesOf(c) : snap.outcomes[i].result = "exception"})
               < FLAGS_snapshot_send_retry_times)
    => /\ snap.promise = <<snap.commit>>
       /\ Cardinality({i \in DOMAIN snap.recv : snap.recv[i].done}) <= 1

\* C7: a callback with status FAILED has returned false, the future holds an
\* error, nothing is outstanding, and no request was sent for that callback
\* or for a later one.
C7_FailedStopsTransfer ==
    \A k \in DOMAIN snap.cbs :
        snap.cbs[k] = "FAILED"
        => /\ Len(snap.rets) >= k
           /\ snap.rets[k] = FALSE
           /\ snap.promise = <<SendError>>
           /\ snap.outstanding = 0
           /\ \A i \in DOMAIN snap.reqs : snap.reqs[i].rows < k

C7_Witness ==
    /\ snap.pc = "end"
    /\ snap.cbs = <<"IN_PROGRESS", "FAILED">>
    /\ Len(snap.reqs) = 1
    /\ snap.promise = <<SendError>>

\* C9: a snapshot transfer has at most one request outstanding, a request is
\* sent only when every earlier one has completed, and the requests carry the
\* chunks in iteration order.
C9_OneChunkOutstanding ==
    /\ snap.outstanding <= 1
    /\ Len(snap.reqs) = Len(snap.outcomes) + snap.outstanding
    /\ \A i, j \in DOMAIN snap.reqs : i < j => snap.reqs[i].rows <= snap.reqs[j].rows
    /\ \A i \in DOMAIN snap.reqs : snap.reqs[i].rows <= Len(snap.cbs)

C9_Witness ==
    /\ snap.outstanding = 1
    /\ Len(snap.reqs) = 3
    /\ snap.reqs[1].rows = 1
    /\ snap.reqs[2].rows = 1
    /\ snap.reqs[3].rows = 2

(***************************************************************************)
(* Properties of the chain write client: error codes and retries.          *)
(***************************************************************************)
\* Response number i was the last thing the operation handled: no lookup and
\* no send followed it, and the promise holds exactly code.
TerminalAt(i, code) ==
    /\ i = Len(chain.resps)
    /\ Len(chain.lookups) = i
    /\ Len(chain.sent) = i
    /\ chain.inflight = 0
    /\ chain.pc = "done"
    /\ chain.promise = <<code>>

\* C11: the operation goes on after response i (lookup i+1 is made, the
\* promise is not set by that response) exactly when the code extracted from
\* it is E_LEADER_CHANGED, from the status or from a failed part; any other
\* code is set on the promise as it is and ends the operation.
C11_RetryIffLeaderChanged ==
    \A i \in DOMAIN chain.resps :
        /\ chain.codes[i] = "E_LEADER_CHANGED" <=> Len(chain.lookups) > i
        /\ chain.codes[i] # "E_LEADER_CHANGED" => TerminalAt(i, chain.codes[i])
        /\ (chain.codes[i] = "E_LEADER_CHANGED" /\ i = Len(chain.resps))
             => chain.promise \in {<<>>, <<"E_SPACE_NOT_FOUND">>}

C11_Witness ==
    /\ Len(chain.resps) = 2
    /\ chain.resps[1] = [hasValue |-> TRUE, status |-> "ok",
                         failed |-> <<"E_LEADER_CHANGED", "E_KEY_NOT_FOUND">>]
    /\ chain.resps[2] = [hasValue |-> TRUE, status |-> "ok",
                         failed |-> <<"E_KEY_NOT_FOUND", "E_LEADER_CHANGED">>]
    /\ Len(chain.lookups) = 2
    /\ chain.promise = <<"E_KEY_NOT_FOUND">>

\* C12: a send that ends without a response value sets E_RPC_FAILURE on the
\* promise and ends the operation: its attempt made one lookup and one send,
\* and no lookup or send follows.
C12_RpcFailureIsTerminal ==
    \A i \in DOMAIN chain.resps :
        ~chain.resps[i].hasValue => TerminalAt(i, "E_RPC_FAILURE")

C12_Witness ==
    /\ Len(chain.resps) = 2
    /\ ~chain.resps[2].hasValue
    /\ chain.kind = "add"
    /\ chain.promise = <<"E_RPC_FAILURE">>

(***************************************************************************)
(* Properties of the snapshot transfer: failures and retries.              *)
(***************************************************************************)
\* The requests that carried chunk c.
RequestsOf(c) == {i \in DOMAIN snap.reqs : snap.reqs[i].rows = c}

\* C13: when the receiver answered a request with a code other than
\* SUCCEEDED, no request was sent after it (neither the same chunk again nor
\* a later chunk), whatever retry budget is left, the callback returned false
\* and the future holds an error.
C13_ReceiverErrorIsFinal ==
    \A i \in DOMAIN snap.outcomes :
        snap.outcomes[i].result \notin {"SUCCEEDED", "exception"}
        => /\ i = Len(snap.reqs)
           /\ snap.outstanding = 0
           /\ Len(snap.rets) = Len(snap.cbs)
           /\ snap.rets[Len(snap.rets)] = FALSE
           /\ snap.promise = <<SendError>>

C13_Witness ==
    /\ snap.pc = "end"
    /\ Len(snap.outcomes) = 2
    /\ snap.outcomes[1].result = "SUCCEEDED"
    /\ snap.outcomes[2].result = "E_PERSIST_SNAPSHOT_FAILED"
    /\ snap.retry = FLAGS_snapshot_send_retry_times - 1
    /\ snap.promise = <<SendError>>

\* C14: a chunk is sent at most snapshot_send_retry_times times; it is sent
\* again only when its previous request ended in an exception; and when that
\* many requests of a chunk ended in an exception, the callback returned
\* false, the future holds an error and no later chunk was sent.
C14_RetryBudget ==
    /\ \A c \in DOMAIN snap.cbs :
         Cardinality(RequestsOf(c)) <= FLAGS_snapshot_send_retry_times
    /\ \A i \in DOMAIN snap.reqs :
         (i > 1 /\ snap.reqs[i].rows = snap.reqs[i - 1].rows)
         => snap.outcomes[i - 1].result = "exception"
    /\ \A c \in DOMAIN snap.cbs :
         Cardinality({i \in OutcomesOf(c) : snap.outcomes[i].result = "exception"})
            = FLAGS_snapshot_send_retry_times
         => /\ Len(snap.rets) >= c
            /\ snap.rets[c] = FALSE
            /\ snap.promise = <<SendError>>
            /\ \A i \in DOMAIN snap.reqs : snap.reqs[i].rows <= c

C14_Witness ==
    /\ snap.pc = "end"
    /\ snap.cbs = <<"IN_PROGRESS", "IN_PROGRESS">>
    /\ Cardinality(RequestsOf(1)) = 2
    /\ Cardinality(RequestsOf(2)) = 3
    /\ \A i \in OutcomesOf(2) : snap.outcomes[i].result = "exception"
    /\ snap.promise = <<SendError>>

(***************************************************************************)
(* Properties of getErrorCode, as the continuations apply it.              *)
(***************************************************************************)
\* C15: the code extracted from a response is E_RPC_FAILURE when the Try holds
\* no value; otherwise E_LEADER_CHANGED when the status is kLeaderChanged;
\* otherwise, the status being ok, X when failed_parts has the one entry X and
\* SUCCEEDED when failed_parts is empty.
C15_GetErrorCodeCases ==
    \A i \in DOMAIN chain.resps :
        LET t == chain.resps[i]
            code == chain.codes[i]
        IN  /\ ~t.hasValue => code = "E_RPC_FAILURE"
            /\ (t.hasValue /\ t.status = "kLeaderChanged") => code = "E_LEADER_CHANGED"
            /\ (t.hasValue /\ t.status = "ok" /\ Len(t.failed) = 1) => code = t.failed[1]
            /\ (t.hasValue /\ t.status = "ok" /\ t.failed = <<>>) => code = "SUCCEEDED"

C15_Witness ==
    /\ Len(chain.resps) = 3
    /\ chain.resps[1] = [hasValue |-> TRUE, status |-> "kLeaderChanged", failed |-> <<>>]
    /\ chain.resps[2] = [hasValue |-> TRUE, status |-> "ok", failed |-> <<"E_LEADER_CHANGED">>]
    /\ chain.resps[3] = [hasValue |-> TRUE, status |-> "ok", failed |-> <<>>]
    /\ chain.codes = <<"E_LEADER_CHANGED", "E_LEADER_CHANGED", "SUCCEEDED">>

\* C16: from an ok response whose failed_parts has several entries the code
\* extracted is that of the first entry, whatever the later entries are.
C16_FirstFailureWins ==
    \A i \in DOMAIN chain.resps :
        LET t == chain.resps[i] IN
        (t.hasValue /\ t.status = "ok" /\ Len(t.failed) >= 2)
        => chain.codes[i] = Head(t.failed)

C16_Witness ==
    /\ Len(chain.resps) = 1
    /\ chain.resps[1].failed = <<"E_KEY_NOT_FOUND", "E_LEADER_CHANGED">>
    /\ chain.codes = <<"E_KEY_NOT_FOUND">>
    /\ chain.promise = <<"E_KEY_NOT_FOUND">>

\* C17: from a received response whose status is neither ok nor
\* kLeaderChanged the code extracted is E_UNKNOWN, and the operation ends
\* there with E_UNKNOWN on the promise.
C17_OtherStatusIsUnknown ==
    \A i \in DOMAIN chain.resps :
        LET t == chain.resps[i] IN
        (t.hasValue /\ t.status \notin {"ok", "kLeaderChanged"})
        => chain.codes[i] = "E_UNKNOWN" /\ TerminalAt(i, "E_UNKNOWN")

C17_Witness ==
    /\ Len(chain.resps) = 2
    /\ chain.resps[2] = [hasValue |-> TRUE, status |-> "kError", failed |-> <<>>]
    /\ chain.kind = "delete"
    /\ chain.promise = <<"E_UNKNOWN">>

\* C18: however many responses came, as long as every lookup succeeded and
\* every response yielded E_LEADER_CHANGED, one more attempt has been looked
\* up and sent and is in flight, and the promise is not set.
C18_NoRetryLimit ==
    (/\ chain.pc # "idle"
     /\ AllLookupsOk
     /\ \A i \in DOMAIN chain.codes : chain.codes[i] = "E_LEADER_CHANGED")
    => /\ chain.pc = "sending"
       /\ chain.inflight = 1
       /\ Len(chain.sent) = Len(chain.resps) + 1
       /\ chain.promise = <<>>

C18_Witness ==
    /\ Len(chain.codes) = 2
    /\ \A i \in DOMAIN chain.codes : chain.codes[i] = "E_LEADER_CHANGED"
    /\ AllLookupsOk
    /\ chain.pc = "sending"
    /\ Len(chain.sent) = 3

\* C20: after a response that yielded E_LEADER_CHANGED a new lookup is made,
\* and when it succeeds the next request goes to the address it returned (at
\* the internal port): to the previous request's address only when the new
\* lookup returned the previous leader again.
C20_FreshLookupOnRetry ==
    \A i \in DOMAIN chain.resps :
        chain.codes[i] = "E_LEADER_CHANGED"
        => /\ Len(chain.lookups) >= i + 1
           /\ chain.lookups[i + 1].ok
                => /\ Len(chain.sent) >= i + 1
                   /\ chain.sent[i + 1].addr.host = chain.lookups[i + 1].addr.host
                   /\ (chain.sent[i + 1].addr = chain.sent[i].addr
                         => chain.lookups[i + 1].addr = chain.lookups[i].addr)

C20_Witness ==
    /\ Len(chain.resps) = 2
    /\ chain.codes[1] = "E_LEADER_CHANGED"
    /\ chain.codes[2] = "E_LEADER_CHANGED"
    /\ chain.lookups[1].addr.host = "h2"
    /\ chain.lookups[2].addr.host = "h1"
    /\ chain.lookups[3].addr.host = "h1"
    /\ chain.sent[1].addr.host = "h2"
    /\ chain.sent[2].addr.host = "h1"
    /\ chain.sent[3].addr.host = "h1"

(***************************************************************************)
(* Properties of the receiver of chain requests.                           *)
(***************************************************************************)
\* C19: every chain request the receiver applied carried an originating term
\* at least the term of the source partition the receiver knew when it
\* handled the request; a request of an older term is answered with a failed
\* part and is not applied.
C19_StaleTermNeverApplied ==
    /\ \A i \in DOMAIN peer.applied : peer.applied[i].term >= peer.applied[i].known
    /\ \A i \in DOMAIN chain.resps :
         chain.resps[i].failed = <<"E_OUTDATED_TERM">>
         => chain.promise = <<"E_OUTDATED_TERM">> /\ chain.term < peer.srcTerm

C19_Witness ==
    /\ chain.pc = "done"
    /\ chain.term = 1
    /\ peer.srcTerm = 2
    /\ peer.applied = <<>>
    /\ Len(chain.sent) = 2
    /\ chain.promise = <<"E_OUTDATED_TERM">>

\* C21: every request of one chain operation, the first and every retry,
\* carries the caller's payload, the term the caller passed and the caller's
\* version (none exactly when the caller gave none).
C21_SamePayloadTermVersion ==
    \A k \in DOMAIN chain.sent :
        /\ chain.sent[k].kind = chain.kind
        /\ chain.sent[k].parts = chain.parts
        /\ chain.sent[k].term = chain.term
        /\ chain.sent[k].version = chain.version
        /\ \A j \in DOMAIN chain.sent :
             /\ chain.sent[j].parts = chain.sent[k].parts
             /\ chain.sent[j].term = chain.sent[k].term
             /\ chain.sent[j].version = chain.sent[k].version
C21_Witness ==
    /\ Len(chain.sent) = 3
    /\ chain.kind = "add"
    /\ chain.term = 2
    /\ chain.version = "v7"
    /\ chain.parts = <<2, 1>>
    /\ chain.sent[3].version = "v7"

DefiniteCodes ==
    {"SUCCEEDED", "E_SPACE_NOT_FOUND", "E_RPC_FAILURE", "E_UNKNOWN", "E_KEY_NOT_FOUND"}

\* C22: when every request's future completes and the peer at some attempt
\* answers something other than leader-changed (or a lookup fails), an issued
\* chain operation eventually resolves its promise, with success or with a
\* definite error code.
C22_EventuallyResolved ==
    (chain.pc # "idle")
        ~> (chain.pc = "done" /\ Len(chain.promise) = 1 /\ chain.promise[1] \in DefiniteCodes)
C22_Witness ==
    /\ chain.pc = "done"
    /\ Len(chain.sent) = MaxAttempts
    /\ \A i \in 1..(MaxAttempts - 1) : chain.codes[i] = "E_LEADER_CHANGED"
    /\ chain.promise = <<"E_KEY_NOT_FOUND">>

\* C23: an operation begins with a leader lookup (nothing is sent and nothing
\* is resolved before the first lookup), and a resolved operation is final:
\* once the promise holds a value no step adds a lookup, a request or another
\* promise value, and no request is left whose continuation could do so.
C23_TerminalAbsorbing ==
  /\ [](chain.promise # <<>> => chain.pc = "done" /\ chain.inflight = 0)
  /\
    [][ /\ chain.lookups = <<>>
            => /\ chain.sent = <<>> /\ chain.promise = <<>>
               /\ chain'.lookups # <<>> \/ chain' = chain
               /\ Len(chain'.sent) <= Len(chain'.lookups)
        /\ chain.promise # <<>>
            => /\ chain'.lookups = chain.lookups
               /\ chain'.sent = chain.sent
               /\ chain'.promise = chain.promise
               /\ chain'.pc = "done" ]_vars
C23_Witness ==
    /\ chain.pc = "done"
    /\ chain.kind = "delete"
    /\ Len(chain.lookups) = 2
    /\ Len(chain.sent) = 2
    /\ chain.promise = <<"SUCCEEDED">>

\* C24: a leader lookup that fails on a retry (after one or more
\* leader-changed answers) is the operation's last step: the promise gets
\* E_SPACE_NOT_FOUND, the lookup is not repeated and nothing is sent after it.
C24_RetryLookupFailure ==
    \A i \in DOMAIN chain.lookups :
        (i >= 2 /\ ~chain.lookups[i].ok)
            => /\ i = Len(chain.lookups)
               /\ Len(chain.sent) = i - 1
               /\ Len(chain.resps) = i - 1
               /\ \A j \in 1..(i - 1) : chain.codes[j] = "E_LEADER_CHANGED"
               /\ chain.promise = <<"E_SPACE_NOT_FOUND">>
               /\ chain.pc = "done"
               /\ chain.inflight = 0
C24_Witness ==
    /\ chain.kind = "add"
    /\ Len(chain.lookups) = 3
    /\ ~chain.lookups[3].ok
    /\ Len(chain.sent) = 2
    /\ chain.promise = <<"E_SPACE_NOT_FOUND">>

\* C26: every request of a chain operation, the first and each retry, is
\* dispatched on the event base the caller passed to the operation.
C26_DispatchedOnCallerEvb ==
    \A k \in DOMAIN chain.sent : chain.sent[k].evb = CallerEvb

\* C30: chainAddEdges and chainDeleteEdges make one leader lookup per attempt,
\* for the first partition key of the request and for no other partition, and
\* send the whole request, with the batches of all its partitions, in one
\* message to the leader that lookup returned.
C30_OneLookupFirstPart ==
    chain.kind \in {"add", "delete"}
        => /\ \A i \in DOMAIN chain.lookups :
                /\ chain.lookups[i].part = chain.parts[1]
                /\ chain.lookups[i].part \in PartIds
           /\ Len(chain.sent) <= Len(chain.lookups)
           /\ Len(chain.lookups) <= Len(chain.sent) + 1
           /\ \A k \in DOMAIN chain.sent :
                /\ chain.sent[k].attempt = k
                /\ chain.sent[k].parts = chain.parts
                /\ chain.lookups[k].ok
                /\ chain.sent[k].addr = InternalAddr(chain.lookups[k].addr)
C30_Witness ==
    /\ chain.kind = "delete"
    /\ chain.parts = <<2, 1>>
    /\ Len(chain.sent) = 2
    /\ chain.lookups[2].part = 2
    /\ chain.sent[2].parts = <<2, 1>>

(***************************************************************************)
(* Further properties of the snapshot transfer.                            *)
(***************************************************************************)
\* The fields of a request that identify the transfer.
HeaderOf(req) ==
    <<req.space, req.part, req.term, req.committed_log_id, req.committed_log_term,
      req.leader_addr, req.leader_port>>

\* C27: every request of one transfer, retried ones included, carries the
\* space id, partition id, term, committed (LogID, Term) and sender address the
\* worker read when it started, whatever the partition's term and commit
\* position have become meanwhile.
C27_SameHeaderEveryChunk ==
    \A i \in DOMAIN snap.reqs :
        /\ HeaderOf(snap.reqs[i]) = HeaderOf(snap.reqs[1])
        /\ HeaderOf(snap.reqs[i])
             = <<SpaceOfPart, IdOfPart, snap.termId, snap.commit[1], snap.commit[2],
                 LocalHost.host, LocalHost.port>>
        /\ snap.termId <= part.term
        /\ snap.commit[1] <= part.commitId
C27_Witness ==
    /\ Len(snap.reqs) = 3
    /\ snap.reqs[2].rows = snap.reqs[3].rows
    /\ snap.reqs[3].term = 1
    /\ snap.reqs[3].committed_log_id = 1
    /\ part.term = 2
    /\ part.commitId = 2
    /\ snap.pc = "wait"

\* The StatusOr given to the promise holds a value, a (LogID, Term) pair.
IsSuccessValue(v) == v \in Nat \X Nat

\* C28: the future of a transfer holds a success value only when the last
\* request, carrying done = true, reached the receiver and was answered
\* SUCCEEDED, every chunk of the transfer having been answered SUCCEEDED; and
\* right after a SUCCEEDED answer to a request without done the future is
\* still unresolved.
C28_SuccessOnlyAfterDoneAck ==
    LET n == Len(snap.outcomes) IN
    /\ \A k \in DOMAIN snap.promise :
         IsSuccessValue(snap.promise[k])
            => /\ n >= 1
               /\ Len(snap.reqs) = n
               /\ snap.reqs[n].done
               /\ snap.reqs[n].rows = Len(snap.cbs)
               /\ snap.outcomes[n] = [delivered |-> TRUE, result |-> "SUCCEEDED"]
               /\ \A c \in 1..Len(snap.cbs) :
                    \E i \in OutcomesOf(c) : snap.outcomes[i].result = "SUCCEEDED"
    /\ (/\ n >= 1
        /\ Len(snap.reqs) = n
        /\ snap.outcomes[n].result = "SUCCEEDED"
        /\ ~snap.reqs[n].done
        /\ Len(snap.cbs) = snap.reqs[n].rows)
       => snap.promise = <<>>
C28_Witness ==
    /\ snap.pc = "end"
    /\ Len(snap.promise) = 1
    /\ IsSuccessValue(snap.promise[1])
    /\ snap.cbs = <<"IN_PROGRESS", "DONE">>
    /\ Len(snap.outcomes) = 4
    /\ snap.outcomes[1].result = "exception"

(***************************************************************************)
(* The three chain operations compared.                                    *)
(***************************************************************************)
\* What an operation did, without its payload: the lookups, the requests
\* (their number, order, destination, term and event base), the answers it
\* consumed and the values it gave to the promise.
TraceOf(o) ==
    [ pc       |-> o.pc,
      lookups  |-> o.lookups,
      sends    |-> [k \in DOMAIN o.sent |->
                      <<o.sent[k].attempt, o.sent[k].addr, o.sent[k].term, o.sent[k].evb>>],
      inflight |-> o.inflight,
      resps    |-> o.resps,
      codes    |-> o.codes,
      promise  |-> o.promise ]

\* C25: given the same lookup results and the same answers, chainUpdateEdge,
\* chainAddEdges and chainDeleteEdges make the same lookups and the same sends
\* in the same order and give the same code to the promise.
C25_SameStateMachine ==
    \A k1 \in ChainKinds, k2 \in ChainKinds : TraceOf(trio[k1]) = TraceOf(trio[k2])
C25_Witness ==
    /\ trio["update"].pc = "done"
    /\ Len(trio["delete"].sent) = 3
    /\ Len(trio["add"].lookups) = 3
    /\ trio["add"].promise = <<"E_UNKNOWN">>
    /\ trio["delete"].promise = <<"E_UNKNOWN">>
    /\ trio["update"].promise = <<"E_UNKNOWN">>

(***************************************************************************)
(* Concurrent operations.                                                  *)
(***************************************************************************)
\* The code a finished chain operation owes to its own last lookup and answer.
OwnChainValue(c) ==
    IF ~c.lookups[Len(c.lookups)].ok THEN "E_SPACE_NOT_FOUND"
    ELSE getErrorCode(c.resps[Len(c.resps)])

ChainResolvedByOwn(c) ==
    /\ Len(c.promise) <= 1
    /\ c.pc = "done" <=> Len(c.promise) = 1
    /\ c.promise # <<>> => c.promise = <<OwnChainValue(c)>> /\ c.inflight = 0
    /\ Len(c.sent) <= Len(c.lookups)
    /\ Len(c.lookups) <= Len(c.resps) + 1
    /\ Len(c.resps) + c.inflight = Len(c.sent)

\* The transfer's own last callback and answer call for the success value.
OwnSnapSuccess(s) ==
    /\ s.cbs[Len(s.cbs)] = "DONE"
    /\ s.outcomes # <<>>
    /\ Len(s.outcomes) = Len(s.reqs)
    /\ s.outcomes[Len(s.outcomes)].result = "SUCCEEDED"

SnapValueByOwn(s) ==
    /\ Len(s.promise) <= 1
    /\ s.promise # <<>>
         => /\ IterationOver(s)
            /\ IsSuccessValue(s.promise[1]) <=> OwnSnapSuccess(s)
            /\ IsSuccessValue(s.promise[1]) => s.promise[1] = s.commit
    /\ Len(s.outcomes) + s.outstanding = Len(s.reqs)

\* A step of one operation leaves the other operation as it was.
OthersUntouched ==
    \A i \in Slots : ops'[i] # ops[i] => \A j \in Slots \ {i} : ops'[j] = ops[j]

C31_RetryIdentical ==
    \A i \in DOMAIN snap.outcomes :
        (snap.outcomes[i].result = "exception" /\ i < Len(snap.reqs))
            => /\ snap.reqs[i + 1].rows = snap.reqs[i].rows
               /\ snap.reqs[i + 1].total_count = snap.reqs[i].total_count
               /\ snap.reqs[i + 1].total_size = snap.reqs[i].total_size
               /\ snap.reqs[i + 1].done = snap.reqs[i].done
               /\ snap.reqs[i + 1].addr = snap.reqs[i].addr
               /\ snap.reqs[i + 1] = snap.reqs[i]
C31_Witness ==
    /\ Len(snap.reqs) = 3
    /\ snap.cbs = <<"DONE">>
    /\ snap.outcomes = << [delivered |-> FALSE, result |-> "exception"],
                          [delivered |-> TRUE, result |-> "exception"] >>
    /\ snap.reqs[3].done
    /\ snap.reqs[3].addr.host = "h2"

(***************************************************************************)
(* Properties of the DivideZone processor.                                 *)
(***************************************************************************)
ZoneSucceeded == zone.pc = "done" /\ zone.code = "SUCCEEDED"
ZoneFailed == zone.pc = "done" /\ zone.code # "SUCCEEDED"
HostsOf(list) == {list[k] : k \in DOMAIN list}
\* The names of the request's new zones.
ItemNames == {zone.items[i].name : i \in DOMAIN zone.items}

\* C32: after a successful DivideZone the host lists of the new zones
\* partition the hosts of the original zone: every host of the original zone
\* is in exactly one new zone and no new zone holds any other host.
C32_NewZonesPartitionHosts ==
    ZoneSucceeded
        => LET orig == HostsOf(zone.before.zones[OriginalZone]) IN
           /\ \A n \in ItemNames : n \in DOMAIN zone.store.zones
           /\ \A h \in orig :
                Cardinality({n \in ItemNames : h \in HostsOf(zone.store.zones[n])}) = 1
           /\ \A n \in ItemNames : HostsOf(zone.store.zones[n]) \subseteq orig

\* The list names some host more than once, at any positions.
HasDuplicate(list) == \E i \in DOMAIN list, j \in DOMAIN list : i # j /\ list[i] = list[j]
\* The original zone exists and no new zone name does.
NamesAcceptable ==
    /\ OriginalZone \in DOMAIN zone.before.zones
    /\ \A n \in ItemNames : n \notin DOMAIN zone.before.zones

\* C33: a request (for an existing zone, with new names, the listing of the
\* spaces not failing) in which the host list of a new zone names a host more
\* than once, at any positions, ends with E_INVALID_PARM and no batch is
\* written.
C33_DuplicateHostRejected ==
    (/\ zone.pc = "done"
     /\ NamesAcceptable
     /\ zone.code # "E_KEY_NOT_FOUND"
     /\ \E i \in DOMAIN zone.items : HasDuplicate(zone.items[i].hosts))
        => zone.code = "E_INVALID_PARM" /\ zone.batches = <<>>

\* C34: when process ends with an error code (zone not found, more items
\* than hosts, an existing new name, invalid host lists, hosts not matching
\* the original zone, or a failed listing of the spaces) no batch was given to
\* doBatchOperation and every zone record and space record is as before.
C34_ErrorWritesNothing ==
    zone.pc = "done"
        => /\ zone.code \in {"SUCCEEDED", "E_ZONE_NOT_FOUND", "E_INVALID_PARM",
                             "E_EXISTED", "E_KEY_NOT_FOUND"}
           /\ ZoneFailed => zone.batches = <<>> /\ zone.store = zone.before
           /\ ZoneSucceeded => Len(zone.batches) = 1
C34_Witness ==
    /\ ZoneFailed
    /\ zone.code = "E_EXISTED"
    /\ Len(zone.items) = 2
    /\ zone.items[1].name = "a"
    /\ zone.items[1].hosts = <<"h1", "h2">>
    /\ zone.items[2].name = OtherZone
    /\ zone.store = zone.before

\* The positions of the batch that hold the operation op on table t for key.
OpsOn(b, op, t, key) ==
    {k \in DOMAIN b : b[k].op = op /\ b[k].table = t /\ b[k].key = key}

\* C35: a successful DivideZone gives doBatchOperation one batch that removes
\* the original zone, puts one record for each new zone, and puts each space
\* whose zone list named the original zone with a list that names every new
\* zone and not the original one; afterwards no space names the removed zone,
\* and a space that did not name it is not written.
C35_SingleBatch ==
    ZoneSucceeded
        => /\ Len(zone.batches) = 1
           /\ LET b == zone.batches[1] IN
              /\ Cardinality({k \in DOMAIN b : b[k].op = "remove"}) = 1
              /\ Cardinality(OpsOn(b, "remove", "zones", OriginalZone)) = 1
              /\ \A i \in DOMAIN zone.items :
                   /\ Cardinality(OpsOn(b, "put", "zones", zone.items[i].name)) = 1
                   /\ \A k \in OpsOn(b, "put", "zones", zone.items[i].name) :
                        b[k].val = zone.items[i].hosts
              /\ \A k \in DOMAIN b :
                   (b[k].op = "put" /\ b[k].table = "zones") => b[k].key \in ItemNames
              /\ \A id \in DOMAIN zone.before.spaces :
                   IF Contains(zone.before.spaces[id], OriginalZone)
                   THEN /\ Cardinality(OpsOn(b, "put", "spaces", id)) = 1
                        /\ \A k \in OpsOn(b, "put", "spaces", id) :
                             /\ ~Contains(b[k].val, OriginalZone)
                             /\ \A n \in ItemNames : Contains(b[k].val, n)
                             /\ HostsOf(b[k].val)
                                  = (HostsOf(zone.before.spaces[id]) \ {OriginalZone})
                                    \cup ItemNames
                   ELSE OpsOn(b, "put", "spaces", id) = {}
           /\ OriginalZone \notin DOMAIN zone.store.zones
           /\ \A i \in DOMAIN zone.items :
                /\ zone.items[i].name \in DOMAIN zone.store.zones
                /\ zone.store.zones[zone.items[i].name] = zone.items[i].hosts
           /\ \A id \in DOMAIN zone.store.spaces :
                /\ ~Contains(zone.store.spaces[id], OriginalZone)
                /\ ~Contains(zone.before.spaces[id], OriginalZone)
                     => zone.store.spaces[id] = zone.before.spaces[id]
C35_Witness ==
    /\ ZoneSucceeded
    /\ Len(zone.items) = 2
    /\ zone.before.spaces["s1"] = <<OriginalZone, OtherZone>>
    /\ zone.before.spaces["s2"] = <<OtherZone>>
    /\ zone.store.spaces["s1"] = <<OtherZone, "a", "b">>
    /\ zone.store.spaces["s2"] = <<OtherZone>>
    /\ Len(zone.batches[1]) = 4

SomeItemEmpty == \E i \in DOMAIN zone.items : zone.items[i].hosts = <<>>
\* No zone record with an empty host list was written or is stored.
NoEmptyZoneWritten ==
    /\ \A j \in DOMAIN zone.batches : \A k \in DOMAIN zone.batches[j] :
         (zone.batches[j][k].op = "put" /\ zone.batches[j][k].table = "zones")
            => zone.batches[j][k].val # <<>>
    /\ \A n \in DOMAIN zone.store.zones : zone.store.zones[n] # <<>>

\* C36 as stated: a request (for an existing zone) with a new zone whose host
\* list is empty ends with E_INVALID_PARM, whatever its other zone items are,
\* and no zone with an empty host list is written.
C36_EmptyHostsInvalidParm ==
    zone.pc = "done"
        => /\ NoEmptyZoneWritten
           /\ (OriginalZone \in DOMAIN zone.before.zones /\ SomeItemEmpty)
                => zone.code = "E_INVALID_PARM"

\* C36, amended: such a request ends with an error and writes nothing; the
\* code is E_INVALID_PARM unless an item names a zone that exists already, and
\* then it is E_INVALID_PARM or E_EXISTED; no zone with an empty host list is
\* written.
C36_EmptyHostsRejected ==
    zone.pc = "done"
        => /\ NoEmptyZoneWritten
           /\ (OriginalZone \in DOMAIN zone.before.zones /\ SomeItemEmpty)
                => /\ zone.code \in {"E_INVALID_PARM", "E_EXISTED"}
                   /\ zone.batches = <<>>
                   /\ zone.store = zone.before
                   /\ NamesAcceptable => zone.code = "E_INVALID_PARM"
C36_Witness ==
    /\ zone.pc = "done"
    /\ zone.code = "E_EXISTED"
    /\ Len(zone.items) = 2
    /\ zone.items[1] = [name |-> "a", hosts |-> <<>>]
    /\ zone.items[2].name = OtherZone
    /\ zone.batches = <<>>

====
